---- MODULE Spec2Model ----
(***************************************************************************)
(* Model of the aliyundrive auto sign-in program: SignIn (app.py), the     *)
(* notification dispatcher push (app.py), the telegram and pushplus        *)
(* channels (modules/) and main (app.py).                                  *)
(*                                                                         *)
(* Strings the program slices, joins, splits, lowers or strips are         *)
(* sequences of one-character strings.  Python's None of an optional       *)
(* string is the one-element sequence NoneStr.                             *)
(***************************************************************************)
EXTENDS Integers, Sequences, FiniteSets, TLC

(***************************************************************************)
(* Bounds of the model.                                                    *)
(***************************************************************************)
\* longest sign-in log the sign-in endpoint answers with
MaxLogLen == 3
\* largest signInCount the sign-in endpoint answers with
MaxCount == 2
\* longest input credential of a single session
MaxTokenLen == 10
\* most credentials configured for one run of main
MaxUsers == 2

(***************************************************************************)
(* Python values.                                                          *)
(***************************************************************************)
NoneStr == <<"<None>">>

\* truth value of an optional string: None and '' are falsy
Truthy(s) == s # NoneStr /\ s # <<>>

\* a or b
PyOr(a, b) == IF Truthy(a) THEN a ELSE b

Min(a, b) == IF a < b THEN a ELSE b

Max(a, b) == IF a > b THEN a ELSE b

\* a slice bound as Python normalises it: negative bounds count from the end,
\* and the result is clamped to 0..len
SliceIndex(i, len) == IF i < 0 THEN Max(i + len, 0) ELSE Min(i, len)

\* s[start:stop], 0-based, stop exclusive
PySlice(s, start, stop) ==
    LET a == SliceIndex(start, Len(s))
        b == SliceIndex(stop, Len(s))
    IN  IF a >= b THEN <<>> ELSE SubSeq(s, a + 1, b)

\* c * n
Repeat(c, n) == [i \in 1..n |-> c]

\* s[i] for a 0-based and possibly negative index i into a non-empty list;
\* 0 stands for IndexError
PyIndex(s, i) ==
    LET j == IF i < 0 THEN i + Len(s) ELSE i
    IN  IF j >= 0 /\ j < Len(s) THEN j + 1 ELSE 0

RECURSIVE Join(_, _)
\* sep.join(parts)
Join(parts, sep) ==
    IF Len(parts) = 0 THEN <<>>
    ELSE IF Len(parts) = 1 THEN parts[1]
    ELSE parts[1] \o sep \o Join(Tail(parts), sep)

RECURSIVE SplitFrom(_, _, _)
\* s.split(c), with cur the piece read so far
SplitFrom(s, c, cur) ==
    IF Len(s) = 0 THEN <<cur>>
    ELSE IF Head(s) = c THEN <<cur>> \o SplitFrom(Tail(s), c, <<>>)
    ELSE SplitFrom(Tail(s), c, Append(cur, Head(s)))

Split(s, c) == SplitFrom(s, c, <<>>)

(***************************************************************************)
(* Credentials and the answers of the two remote endpoints.                *)
(***************************************************************************)
Alphabet == <<"a", "b", "c", "d", "e", "f", "g", "h", "i", "j", "k", "l">>

\* the credential of n distinct characters
TokenOfLen(n) == [i \in 1..n |-> Alphabet[i]]

\* the input credentials of a single session
Tokens == {TokenOfLen(n) : n \in 0..MaxTokenLen}

\* the credential the token endpoint hands out in exchange for tok
Rotated(tok) == <<"R">> \o tok

UserNames == {<<>>, <<"1", "3", "8">>}

ErrorCodes == {"RefreshTokenExpired", "InvalidParameter.RefreshToken", "InternalError"}

\* the JSON bodies of the token endpoint for a request carrying tok: an optional
\* code, and the three token fields together present or absent
TokenResponses(tok) ==
    { [raw |-> c, has_code |-> TRUE, code |-> c, has_tokens |-> FALSE,
       access_token |-> NoneStr, refresh_token |-> NoneStr, user_name |-> NoneStr]
        : c \in ErrorCodes }
    \cup
    { [raw |-> "token-empty", has_code |-> FALSE, code |-> "", has_tokens |-> FALSE,
       access_token |-> NoneStr, refresh_token |-> NoneStr, user_name |-> NoneStr] }
    \cup
    { [raw |-> "token-ok", has_code |-> FALSE, code |-> "", has_tokens |-> TRUE,
       access_token |-> <<"A">>, refresh_token |-> r, user_name |-> u]
        : r \in {tok, Rotated(tok)} \ {<<>>}, u \in UserNames }

Rewards == {[name |-> "vip", description |-> "1day"]}

\* the log entry of day d
LogEntries(d) ==
    { [day |-> d, status |-> s, isReward |-> b, reward |-> r]
        : s \in {"normal", "miss"}, b \in BOOLEAN, r \in Rewards }

\* the logs of n days, in calendar order
LogsOfLen(n) == { l \in [1..n -> UNION {LogEntries(d) : d \in 1..n}] :
                    \A d \in 1..n : l[d].day = d }

Logs(maxlen) == UNION {LogsOfLen(n) : n \in 0..maxlen}

NoLog == <<>>

\* the JSON bodies of the sign-in endpoint: without the success key, or with
\* it and a result of signInCount and signInLogs
SignInResponses(maxlen, maxcount) ==
    { [raw |-> "signin-error", has_success |-> FALSE, signInCount |-> 0,
       signInLogs |-> NoLog] }
    \cup
    { [raw |-> "signin-ok", has_success |-> TRUE, signInCount |-> n, signInLogs |-> l]
        : n \in 0..maxcount, l \in Logs(maxlen) }

NoTokenData ==
    [raw |-> "None", has_code |-> FALSE, code |-> "", has_tokens |-> FALSE,
     access_token |-> NoneStr, refresh_token |-> NoneStr, user_name |-> NoneStr]

NoSignInData ==
    [raw |-> "None", has_success |-> FALSE, signInCount |-> 0, signInLogs |-> NoLog]


(***************************************************************************)
(* State.                                                                  *)
(***************************************************************************)
VARIABLES
    pc,             \* the statement the program is at
    exc,            \* the exception that escaped to the top level, or "None"
    calls,          \* the remote calls made so far, in order
    by_action,      \* main: whether the run is a remote (action) run
    source,         \* main: the environment (action run) or config.ini (local run)
    config,         \* main: the configuration
    users,          \* main: the credentials to sign in
    idx,            \* main: how many credentials the loop has taken
    self,           \* SignIn: the fields of the session object
    data_token,     \* SignIn.__get_access_token: data
    data_signin,    \* SignIn.__sign_in: data
    current_day,    \* SignIn.__sign_in: current_day, <<>> for None
    result,         \* SignIn.run: the returned dict
    results,        \* main: results
    text,           \* main: text
    text_html,      \* main: text_html
    new_users,      \* main: new_users
    store,          \* the value of the secret REFRESH_TOKENS in the secret store
    push_args,      \* push: content, content_html, title of the call
    configured_push_types,  \* push: configured_push_types
    ch,             \* push: position of the loop in the known channels
    invoked,        \* push: the channels whose push was called, in order
    outcomes,       \* push: what each called channel's push returned
    sent,           \* push: what Pusher.send did in each called channel
    push_return,    \* push: what the last finished call of push returned
    push_count      \* how many calls of push have been started

sessionVars == <<self, data_token, data_signin, current_day, result>>

mainVars == <<by_action, source, config, users, idx, results, text, text_html,
              new_users, store>>

pushVars == <<push_args, configured_push_types, ch, invoked, outcomes, sent,
              push_return, push_count>>

vars == <<pc, exc, calls, sessionVars, mainVars, pushVars>>

(***************************************************************************)
(* SignIn                                                                  *)
(***************************************************************************)
NoError == [raw |-> "None"]

\* SignIn.__hide_refresh_token: slices never raise IndexError
HideRefreshToken(refresh_token) ==
    PySlice(refresh_token, 0, 4)
        \o Repeat("*", Len(PySlice(refresh_token, 4, -4)))
        \o PySlice(refresh_token, -4, Len(refresh_token))

\* SignIn.__init__
NewSignIn(refresh_token) ==
    [refresh_token      |-> refresh_token,
     hide_refresh_token |-> HideRefreshToken(refresh_token),
     access_token       |-> NoneStr,
     new_refresh_token  |-> NoneStr,
     phone              |-> NoneStr,
     signin_count       |-> 0,
     signin_reward      |-> NoneStr,
     error              |-> NoError]

InvalidTokenCodes == {"RefreshTokenExpired", "InvalidParameter.RefreshToken"}

\* the test of data['code'] in __get_access_token; a body without the key
\* raises KeyError, which is passed over
TokenRejected(data) == data.has_code /\ data.code \in InvalidTokenCodes

\* __get_access_token with the rejected body not kept in self.error
GetAccessTokenNoError(data) ==
    /\ pc = "get_access_token"
    /\ calls' = Append(calls, "token")
    /\ data_token' = data
    /\ IF TokenRejected(data)
       THEN /\ self' = self
            /\ pc' = "generate_result"
            /\ exc' = exc
       ELSE IF ~data.has_tokens
       THEN /\ pc' = "raised"
            /\ exc' = "KeyError"
            /\ self' = self
       ELSE /\ self' = [self EXCEPT !.access_token = data.access_token,
                                    !.new_refresh_token = data.refresh_token,
                                    !.phone = data.user_name]
            /\ pc' = "sign_in"
            /\ exc' = exc
    /\ UNCHANGED <<data_signin, current_day, result, mainVars, pushVars>>

\* SignIn.__get_access_token, on the body data of the token endpoint
GetAccessToken(data) ==
    /\ pc = "get_access_token"
    /\ calls' = Append(calls, "token")
    /\ data_token' = data
    /\ IF TokenRejected(data)
       THEN /\ self' = [self EXCEPT !.error = data]
            /\ pc' = "generate_result"
            /\ exc' = exc
       ELSE IF ~data.has_tokens
       THEN \* data['access_token'] raises KeyError
            /\ pc' = "raised"
            /\ exc' = "KeyError"
            /\ self' = self
       ELSE /\ self' = [self EXCEPT !.access_token = data.access_token,
                                    !.new_refresh_token = data.refresh_token,
                                    !.phone = data.user_name]
            /\ pc' = "sign_in"
            /\ exc' = exc
    /\ UNCHANGED <<data_signin, current_day, result, mainVars, pushVars>>

RECURSIVE FirstMiss(_, _)
\* the 0-based index of the first entry of logs, from index i on, whose status is
\* 'miss'; -1 when the loop ends without a break
FirstMiss(logs, i) ==
    IF i >= Len(logs) THEN -1
    ELSE IF logs[i + 1].status = "miss" THEN i
    ELSE FirstMiss(logs, i + 1)

\* the loop of __sign_in: current_day after it, <<>> for None
ScanLogs(logs) ==
    LET i == FirstMiss(logs, 0)
    IN  IF i = -1 THEN <<>> ELSE <<logs[PyIndex(logs, i - 1)]>>

\* SignIn.__sign_in up to the end of its loop, on the body data of the sign-in
\* endpoint
SignInRequest(data) ==
    /\ pc = "sign_in"
    /\ calls' = Append(calls, "sign_in")
    /\ data_signin' = data
    /\ IF ~data.has_success
       THEN /\ self' = [self EXCEPT !.error = data]
            /\ current_day' = current_day
            /\ pc' = "generate_result"
       ELSE /\ current_day' = ScanLogs(data.signInLogs)
            /\ self' = self
            /\ pc' = "reward"
    /\ UNCHANGED <<exc, data_token, result, mainVars, pushVars>>

\* the reward text of __sign_in
RewardText(day) ==
    IF ~day.isReward THEN <<"no reward">>
    ELSE <<"got ", day.reward.name, " ", day.reward.description>>

\* SignIn.__sign_in after its loop
SignInReward ==
    /\ pc = "reward"
    /\ IF current_day = <<>>
       THEN \* None['isReward'] raises TypeError
            /\ pc' = "raised"
            /\ exc' = "TypeError"
            /\ self' = self
       ELSE /\ self' = [self EXCEPT !.signin_count = data_signin.signInCount,
                                    !.signin_reward = RewardText(current_day[1])]
            /\ pc' = "generate_result"
            /\ exc' = exc
    /\ UNCHANGED <<calls, data_token, data_signin, current_day, result, mainVars,
                   pushVars>>

\* json.dumps(error, indent=2, ensure_ascii=False)
Dumps(error) == IF error = NoError THEN "null" ELSE error.raw

SuccessText(user, count, reward) ==
    <<"[">> \o user \o <<"] signed in, days this month: ", ToString(count),
                         "\nthis time: ">> \o reward

FailText(user, error) ==
    <<"[">> \o user \o <<"] sign-in failed\n", Dumps(error)>>

SuccessHtml(user, count, reward) ==
    <<"<code>">> \o user \o <<"</code> signed in, days this month: ", ToString(count),
                              "\nthis time: ">> \o reward

FailHtml(user, error) ==
    <<"<code>">> \o user \o <<"</code> sign-in failed\n", "<code>", Dumps(error),
                              "</code>">>

\* __generate_result with the input credential in place of the rotated one
GenerateResultOfInput(s) ==
    LET user == PyOr(s.phone, s.hide_refresh_token)
    IN  [success       |-> s.signin_count # 0,
         user          |-> PyOr(s.phone, s.hide_refresh_token),
         refresh_token |-> s.refresh_token,
         count         |-> s.signin_count,
         reward        |-> s.signin_reward,
         text          |-> IF s.signin_count # 0
                           THEN SuccessText(user, s.signin_count, s.signin_reward)
                           ELSE FailText(user, s.error),
         text_html     |-> IF s.signin_count # 0
                           THEN SuccessHtml(user, s.signin_count, s.signin_reward)
                           ELSE FailHtml(user, s.error)]

\* __generate_result with the credential itself where no user name is known
GenerateResultOfUnmasked(s) ==
    LET user == PyOr(s.phone, s.refresh_token)
    IN  [success       |-> s.signin_count # 0,
         user          |-> PyOr(s.phone, s.refresh_token),
         refresh_token |-> PyOr(s.new_refresh_token, s.refresh_token),
         count         |-> s.signin_count,
         reward        |-> s.signin_reward,
         text          |-> IF s.signin_count # 0
                           THEN SuccessText(user, s.signin_count, s.signin_reward)
                           ELSE FailText(user, s.error),
         text_html     |-> IF s.signin_count # 0
                           THEN SuccessHtml(user, s.signin_count, s.signin_reward)
                           ELSE FailHtml(user, s.error)]

\* SignIn.__generate_result
GenerateResultOf(s) ==
    LET user == PyOr(s.phone, s.hide_refresh_token)
    IN  [success       |-> s.signin_count # 0,
         user          |-> PyOr(s.phone, s.hide_refresh_token),
         refresh_token |-> PyOr(s.new_refresh_token, s.refresh_token),
         count         |-> s.signin_count,
         reward        |-> s.signin_reward,
         text          |-> IF s.signin_count # 0
                           THEN SuccessText(user, s.signin_count, s.signin_reward)
                           ELSE FailText(user, s.error),
         text_html     |-> IF s.signin_count # 0
                           THEN SuccessHtml(user, s.signin_count, s.signin_reward)
                           ELSE FailHtml(user, s.error)]

\* SignIn.run, its last statement
GenerateResult ==
    /\ pc = "generate_result"
    /\ result' = GenerateResultOf(self)
    /\ pc' = "return"
    /\ UNCHANGED <<exc, calls, self, data_token, data_signin, current_day, mainVars,
                   pushVars>>

NoResult ==
    [success |-> FALSE, user |-> NoneStr, refresh_token |-> NoneStr, count |-> 0,
     reward |-> NoneStr, text |-> <<>>, text_html |-> <<>>]


(***************************************************************************)
(* Channel names and the configuration of the channels.                    *)
(***************************************************************************)
UpperCase == <<"A", "B", "C", "D", "E", "F", "G", "H", "I", "J", "K", "L", "M",
               "N", "O", "P", "Q", "R", "S", "T", "U", "V", "W", "X", "Y", "Z">>

LowerCase == <<"a", "b", "c", "d", "e", "f", "g", "h", "i", "j", "k", "l", "m",
               "n", "o", "p", "q", "r", "s", "t", "u", "v", "w", "x", "y", "z">>

Whitespace == {" ", "\t", "\n", "\r"}

LowerChar(c) ==
    IF \E i \in 1..Len(UpperCase) : UpperCase[i] = c
    THEN LowerCase[CHOOSE i \in 1..Len(UpperCase) : UpperCase[i] = c]
    ELSE c

\* str.lower
Lower(s) == [i \in 1..Len(s) |-> LowerChar(s[i])]

RECURSIVE LStrip(_)
LStrip(s) == IF Len(s) > 0 /\ Head(s) \in Whitespace THEN LStrip(Tail(s)) ELSE s

RECURSIVE RStrip(_)
RStrip(s) ==
    IF Len(s) > 0 /\ s[Len(s)] \in Whitespace THEN RStrip(SubSeq(s, 1, Len(s) - 1))
    ELSE s

\* str.strip
Strip(s) == RStrip(LStrip(s))

DINGTALK == <<"d", "i", "n", "g", "t", "a", "l", "k">>

SERVERCHAN == <<"s", "e", "r", "v", "e", "r", "c", "h", "a", "n">>

PUSHDEER == <<"p", "u", "s", "h", "d", "e", "e", "r">>

TELEGRAM == <<"t", "e", "l", "e", "g", "r", "a", "m">>

PUSHPLUS == <<"p", "u", "s", "h", "p", "l", "u", "s">>

SMTP == <<"s", "m", "t", "p">>

\* the dict of push, in its order: the key and the module of each known channel
KnownChannels ==
    <<[push_type |-> DINGTALK, pusher |-> "dingtalk"],
      [push_type |-> SERVERCHAN, pusher |-> "serverchan"],
      [push_type |-> PUSHDEER, pusher |-> "pushdeer"],
      [push_type |-> TELEGRAM, pusher |-> "telegram"],
      [push_type |-> PUSHPLUS, pusher |-> "pushplus"],
      [push_type |-> SMTP, pusher |-> "smtp"]>>

\* ' Telegram\t'
PaddedTelegram == <<" ", "T", "e", "l", "e", "g", "r", "a", "m", "\t">>

UpperPushplus == <<"P", "U", "S", "H", "P", "L", "U", "S">>

\* the names a configuration may give in push_types
RawNames ==
    { TELEGRAM,
      PaddedTelegram,
      UpperPushplus,
      SMTP,
      <<"s", "m", "s">>,
      <<"t", "e", "l", "e">> \o <<" ">> \o <<"g", "r", "a", "m">> }


\* most names in a push_types list
MaxPushTypes == 2

\* a configuration value that is one string or a list of strings, or is absent
Absent == [kind |-> "absent", val |-> <<>>]

OneStr(x) == [kind |-> "str", val |-> <<x>>]

ListOf(xs) == [kind |-> "list", val |-> xs]

SeqsUpTo(S, n) == UNION {[1..k -> S] : k \in 0..n}

\* the values of push_types
PushTypeValues ==
    {Absent} \cup {OneStr(x) : x \in RawNames}
             \cup {ListOf(xs) : xs \in SeqsUpTo(RawNames, MaxPushTypes)}

\* a channel setting: its key absent, its value empty, or its value set
Settings == {"absent", "empty", "set"}

\* endpoint, bot token, chat id and proxy key of telegram
TelegramSettings ==
    { <<e, t, c, "set">> : e \in Settings, t \in Settings, c \in {"empty", "set"} }
    \cup { <<"set", "set", "absent", "set">>, <<"set", "set", "set", "absent">> }

NoConfig ==
    [present |-> FALSE, refresh_tokens |-> Absent, push_types |-> Absent,
     pushplus_token |-> "absent", telegram_endpoint |-> "absent",
     telegram_bot_token |-> "absent", telegram_chat_id |-> "absent",
     telegram_proxy |-> "absent"]

MakeConfig(tokens, types, plus, tg) ==
    [present |-> TRUE, refresh_tokens |-> tokens, push_types |-> types,
     pushplus_token |-> plus, telegram_endpoint |-> tg[1],
     telegram_bot_token |-> tg[2], telegram_chat_id |-> tg[3],
     telegram_proxy |-> tg[4]]

(***************************************************************************)
(* The channels.  A channel's push gives raised (the exception leaving it, *)
(* or "None"), ret (its return value), net (the requests it posted) and    *)
(* sent (what its Pusher.send did, "not called" when push ended before).   *)
(***************************************************************************)
Returned(b, n) == [raised |-> "None", ret |-> b, net |-> n, sent |-> "not called"]

Raised(e) == [raised |-> e, ret |-> FALSE, net |-> 0, sent |-> "not called"]

\* push returns b after Pusher.send has posted one request and done s
Sent(b, s) == [raised |-> "None", ret |-> b, net |-> 1, sent |-> s]

\* modules/pushplus.py push; send is what Pusher.send does: "raise" or "ok"
PushplusPush(cfg, send) ==
    IF cfg.pushplus_token = "absent" THEN Raised("KeyError")
    ELSE IF cfg.pushplus_token = "empty" THEN Returned(FALSE, 0)
    ELSE IF send = "raise" THEN Sent(FALSE, "raise")
    ELSE Sent(TRUE, "ok")

\* modules/telegram.py Pusher.send: "raise" when requests.post raises, else
\* None for a status other than 200 and the body for 200
TelegramSend(send) ==
    IF send = "raise" THEN "raise"
    ELSE IF send = "200" THEN "dict"
    ELSE "None"

\* modules/telegram.py push; send is what requests.post does: "raise", "200"
\* or another status
TelegramPush(cfg, send) ==
    IF cfg.telegram_endpoint = "absent" THEN Raised("KeyError")
    ELSE IF cfg.telegram_endpoint = "empty" THEN Returned(FALSE, 0)
    ELSE IF cfg.telegram_bot_token = "absent" THEN Raised("KeyError")
    ELSE IF cfg.telegram_bot_token = "empty" THEN Returned(FALSE, 0)
    ELSE IF cfg.telegram_chat_id = "absent" THEN Raised("KeyError")
    ELSE IF cfg.telegram_chat_id = "empty" THEN Returned(FALSE, 0)
    ELSE IF cfg.telegram_proxy = "absent" THEN Returned(FALSE, 0)
    ELSE IF TelegramSend(send) = "raise" THEN Sent(FALSE, "raise")
    ELSE Sent(TRUE, TelegramSend(send))

\* push of dingtalk, serverchan, pushdeer and smtp, by the channel contract:
\* a channel declines without a request when its settings are incomplete and
\* turns a failed send into False
OtherPush(outcome) ==
    IF outcome = "unconfigured" THEN Returned(FALSE, 0)
    ELSE IF outcome = "raise" THEN Sent(FALSE, "raise")
    ELSE Sent(TRUE, "ok")

(***************************************************************************)
(* push                                                                    *)
(***************************************************************************)
NoPushArgs == [content |-> <<>>, content_html |-> <<>>, caller |-> "none"]

NoReturn == [kind |-> "pending", keys |-> {}]

\* configured_push_types of a present push_types
ConfiguredPushTypes(push_types) ==
    [i \in 1..Len(push_types.val) |-> Strip(Lower(push_types.val[i]))]

InList(x, xs) == \E i \in 1..Len(xs) : xs[i] = x

\* where the caller of push goes on
AfterPush(caller) ==
    IF caller = "report" THEN "update"
    ELSE IF caller = "alert" THEN "done"
    ELSE "returned"

\* push up to its loop
PushStart ==
    /\ pc = "push"
    /\ push_count' = push_count + 1
    /\ invoked' = <<>>
    /\ outcomes' = <<>>
    /\ sent' = <<>>
    /\ push_return' = NoReturn
    /\ IF config.push_types.kind = "absent"
       THEN \* config['push_types'] raises KeyError
            /\ pc' = "raised"
            /\ exc' = "KeyError"
            /\ UNCHANGED <<configured_push_types, ch>>
       ELSE /\ configured_push_types' = ConfiguredPushTypes(config.push_types)
            /\ ch' = 1
            /\ pc' = "push_loop"
            /\ exc' = exc
    /\ UNCHANGED <<calls, sessionVars, mainVars, push_args>>

\* how often x occurs in xs
Count(xs, x) == Cardinality({i \in 1..Len(xs) : xs[i] = x})

\* a turn of the loop that calls the channel once for every occurrence of its
\* name in configured_push_types
CallPusherPerName(r) ==
    /\ invoked' = invoked \o Repeat(KnownChannels[ch].pusher,
                                    Count(configured_push_types,
                                          KnownChannels[ch].push_type))
    /\ sent' = sent \o Repeat(r.sent, Count(configured_push_types,
                                            KnownChannels[ch].push_type))
    /\ calls' = calls \o Repeat(KnownChannels[ch].pusher, r.net)
    /\ IF r.raised # "None"
       THEN /\ pc' = "raised"
            /\ exc' = r.raised
            /\ UNCHANGED <<outcomes, ch>>
       ELSE /\ outcomes' = Append(outcomes, r.ret)
            /\ ch' = ch + 1
            /\ UNCHANGED <<pc, exc>>
    /\ UNCHANGED <<sessionVars, mainVars, push_args, configured_push_types,
                   push_return, push_count>>

\* one turn of the loop of push in which the channel's push is called and gives r
CallPusher(r) ==
    /\ invoked' = Append(invoked, KnownChannels[ch].pusher)
    /\ sent' = Append(sent, r.sent)
    /\ calls' = calls \o Repeat(KnownChannels[ch].pusher, r.net)
    /\ IF r.raised # "None"
       THEN /\ pc' = "raised"
            /\ exc' = r.raised
            /\ UNCHANGED <<outcomes, ch>>
       ELSE /\ outcomes' = Append(outcomes, r.ret)
            /\ ch' = ch + 1
            /\ UNCHANGED <<pc, exc>>
    /\ UNCHANGED <<sessionVars, mainVars, push_args, configured_push_types,
                   push_return, push_count>>

InLoop == pc = "push_loop" /\ ch <= Len(KnownChannels)

Enabled(c) == InList(c.push_type, configured_push_types)

\* a turn of the loop for a channel that is not configured
PushSkip ==
    /\ InLoop
    /\ ~Enabled(KnownChannels[ch])
    /\ ch' = ch + 1
    /\ UNCHANGED <<pc, exc, calls, sessionVars, mainVars, push_args,
                   configured_push_types, invoked, outcomes, sent, push_return,
                   push_count>>

PushTelegram(send) ==
    /\ InLoop
    /\ Enabled(KnownChannels[ch])
    /\ KnownChannels[ch].pusher = "telegram"
    /\ CallPusher(TelegramPush(config, send))

PushPushplus(send) ==
    /\ InLoop
    /\ Enabled(KnownChannels[ch])
    /\ KnownChannels[ch].pusher = "pushplus"
    /\ CallPusher(PushplusPush(config, send))

PushOther(outcome) ==
    /\ InLoop
    /\ Enabled(KnownChannels[ch])
    /\ KnownChannels[ch].pusher \notin {"telegram", "pushplus"}
    /\ CallPusher(OtherPush(outcome))

\* the end of push: nothing is returned
PushReturn ==
    /\ pc = "push_loop"
    /\ ch > Len(KnownChannels)
    /\ push_return' = [kind |-> "None", keys |-> {}]
    /\ pc' = AfterPush(push_args.caller)
    /\ UNCHANGED <<exc, calls, sessionVars, mainVars, push_args,
                   configured_push_types, ch, invoked, outcomes, sent, push_count>>


(***************************************************************************)
(* main                                                                    *)
(***************************************************************************)
\* an environment variable that is not set
Unset == NoneStr

\* get_config_from_env: None when a variable is missing
GetConfigFromEnv(environ) ==
    IF \/ environ.REFRESH_TOKENS = Unset
       \/ environ.PUSH_TYPES = Unset
       \/ environ.PUSHPLUS_TOKEN = "absent"
       \/ environ.TELEGRAM_BOT_TOKEN = "absent"
       \/ environ.TELEGRAM_CHAT_ID = "absent"
       \/ environ.OTHERS = "absent"
    THEN NoConfig
    ELSE MakeConfig(
            ListOf(IF environ.REFRESH_TOKENS = <<>> THEN <<environ.REFRESH_TOKENS>>
                   ELSE Split(environ.REFRESH_TOKENS, ",")),
            ListOf(IF environ.PUSH_TYPES = <<>> THEN <<environ.PUSH_TYPES>>
                   ELSE Split(environ.PUSH_TYPES, ",")),
            environ.PUSHPLUS_TOKEN,
            <<"set", environ.TELEGRAM_BOT_TOKEN, environ.TELEGRAM_CHAT_ID, "empty">>)

\* main, lines 281-296: by_action is fixed by argv; the configuration is read
MainGetConfig ==
    /\ pc = "main"
    /\ config' = IF by_action THEN GetConfigFromEnv(source) ELSE source
    /\ pc' = IF config'.present THEN "users" ELSE "exit"
    /\ UNCHANGED <<exc, calls, sessionVars, by_action, source, users, idx, results,
                   text, text_html, new_users, store, pushVars>>

\* main, lines 299-305
MainUsers ==
    /\ pc = "users"
    /\ IF config.refresh_tokens.kind = "absent"
       THEN \* config['refresh_tokens'] raises KeyError
            /\ pc' = "raised"
            /\ exc' = "KeyError"
            /\ users' = users
       ELSE /\ users' = config.refresh_tokens.val
            /\ pc' = "loop"
            /\ exc' = exc
    /\ results' = <<>>
    /\ UNCHANGED <<calls, sessionVars, by_action, source, config, idx, text,
                   text_html, new_users, store, pushVars>>

\* main, line 308: SignIn(config=config, refresh_token=user) for the next user
MainNewSignIn ==
    /\ pc = "loop"
    /\ idx < Len(users)
    /\ idx' = idx + 1
    /\ self' = NewSignIn(users[idx + 1])
    /\ data_token' = NoTokenData
    /\ data_signin' = NoSignInData
    /\ current_day' = <<>>
    /\ result' = NoResult
    /\ pc' = "get_access_token"
    /\ UNCHANGED <<exc, calls, by_action, source, config, users, results, text,
                   text_html, new_users, store, pushVars>>

\* line 309 with the failed results left out
MainAppendSuccessful ==
    /\ pc = "return"
    /\ results' = IF result.success THEN Append(results, result) ELSE results
    /\ pc' = "loop"
    /\ UNCHANGED <<exc, calls, sessionVars, by_action, source, config, users, idx,
                   text, text_html, new_users, store, pushVars>>

\* main, line 309
MainAppend ==
    /\ pc = "return"
    /\ results' = Append(results, result)
    /\ pc' = "loop"
    /\ UNCHANGED <<exc, calls, sessionVars, by_action, source, config, users, idx,
                   text, text_html, new_users, store, pushVars>>

Texts(rs) == [i \in 1..Len(rs) |-> rs[i].text]

Htmls(rs) == [i \in 1..Len(rs) |-> rs[i].text_html]

RefreshTokens(rs) == [i \in 1..Len(rs) |-> rs[i].refresh_token]

\* main, lines 312-315: the texts are joined and push is called
MainJoin ==
    /\ pc = "loop"
    /\ idx = Len(users)
    /\ text' = Join(Texts(results), <<"\n\n">>)
    /\ text_html' = Join(Htmls(results), <<"\n\n">>)
    /\ push_args' = [content |-> text', content_html |-> text_html',
                     caller |-> "report"]
    /\ pc' = "push"
    /\ UNCHANGED <<exc, calls, sessionVars, by_action, source, config, users, idx,
                   results, new_users, store, configured_push_types, ch, invoked,
                   outcomes, sent, push_return, push_count>>

\* main, lines 318-321, a local run: the joined list goes into config
MainUpdateConfig ==
    /\ pc = "update"
    /\ ~by_action
    /\ new_users' = RefreshTokens(results)
    /\ config' = [config EXCEPT !.refresh_tokens = OneStr(Join(new_users', <<",">>))]
    /\ pc' = "done"
    /\ UNCHANGED <<exc, calls, sessionVars, by_action, source, users, idx, results,
                   text, text_html, store, pushVars>>

UpdateSecretFailed == <<"update of the secret failed">>

\* lines 318-328 with the failure of update_secret only logged
MainUpdateSecretSilent(raises) ==
    /\ pc = "update"
    /\ by_action
    /\ new_users' = RefreshTokens(results)
    /\ calls' = Append(calls, "update_secret")
    /\ store' = IF raises THEN store ELSE Join(new_users', <<",">>)
    /\ pc' = "done"
    /\ UNCHANGED <<exc, sessionVars, by_action, source, config, users, idx, results,
                   text, text_html, pushVars>>

\* main, lines 318-328, an action run: github.update_secret takes the joined
\* list or raises, and then push is called with the error
MainUpdateSecret(raises) ==
    /\ pc = "update"
    /\ by_action
    /\ new_users' = RefreshTokens(results)
    /\ calls' = Append(calls, "update_secret")
    /\ IF raises
       THEN /\ push_args' = [content |-> UpdateSecretFailed,
                             content_html |-> UpdateSecretFailed, caller |-> "alert"]
            /\ pc' = "push"
            /\ store' = store
       ELSE /\ store' = Join(new_users', <<",">>)
            /\ pc' = "done"
            /\ push_args' = push_args
    /\ UNCHANGED <<exc, sessionVars, by_action, source, config, users, idx, results,
                   text, text_html, configured_push_types, ch, invoked, outcomes,
                   sent, push_return, push_count>>


(***************************************************************************)
(* The runs of main.                                                       *)
(***************************************************************************)
\* the credentials configured for a run of main
MainTokens == {TokenOfLen(2), TokenOfLen(9)}

\* the push_types lists of a run of main
MainNames == {<<UpperPushplus>>, <<PaddedTelegram, SMTP>>, <<>>}

\* the answers of the token endpoint in a run of main
MainTokenResponses(tok) ==
    { d \in TokenResponses(tok) :
        /\ d.code \in {"", "RefreshTokenExpired"}
        /\ d.has_tokens => d.refresh_token = Rotated(tok) /\ d.user_name # <<>> }

\* the answers of the sign-in endpoint in a run of main
MainSignInResponses ==
    { d \in SignInResponses(2, 1) :
        d.has_success =>
            /\ d.signInCount = 1
            /\ Len(d.signInLogs) >= 1
            /\ d.signInLogs[1].status = "normal"
            /\ Len(d.signInLogs) = 2 =>
                   d.signInLogs[2].status = "miss" /\ ~d.signInLogs[2].isReward }

\* config.ini of a local run; NoConfig when there is no such file
ConfigFiles ==
    {NoConfig} \cup
    { MakeConfig(tokens, types, plus, <<"set", "set", "set", "set">>) :
        tokens \in {Absent} \cup {OneStr(t) : t \in MainTokens}
                            \cup {ListOf(ts) : ts \in SeqsUpTo(MainTokens, MaxUsers)},
        types \in {Absent, OneStr(PUSHPLUS)} \cup {ListOf(ns) : ns \in MainNames},
        plus \in {"set", "absent"} }

\* the environment of an action run
Environs ==
    { [REFRESH_TOKENS |-> r, PUSH_TYPES |-> p, PUSHPLUS_TOKEN |-> plus,
       TELEGRAM_BOT_TOKEN |-> "set", TELEGRAM_CHAT_ID |-> "set", OTHERS |-> o] :
        r \in {Unset} \cup {Join(ts, <<",">>) : ts \in SeqsUpTo(MainTokens, MaxUsers)},
        p \in {Join(ns, <<",">>) : ns \in MainNames},
        plus \in {"set", "empty"},
        o \in {"set", "absent"} }

\* the state every run starts from
Fresh ==
    /\ exc = "None"
    /\ calls = <<>>
    /\ users = <<>>
    /\ idx = 0
    /\ data_token = NoTokenData
    /\ data_signin = NoSignInData
    /\ current_day = <<>>
    /\ result = NoResult
    /\ results = <<>>
    /\ text = <<>>
    /\ text_html = <<>>
    /\ new_users = <<>>
    /\ store = NoneStr
    /\ configured_push_types = <<>>
    /\ ch = 0
    /\ invoked = <<>>
    /\ outcomes = <<>>
    /\ sent = <<>>
    /\ push_return = NoReturn
    /\ push_count = 0

\* main is started
Init ==
    /\ Fresh
    /\ pc = "main"
    /\ by_action \in BOOLEAN
    /\ source \in IF by_action THEN Environs ELSE ConfigFiles
    /\ config = NoConfig
    /\ self = NewSignIn(<<>>)
    /\ push_args = NoPushArgs

SendOutcomes == {"raise", "200", "403"}

OtherOutcomes == {"unconfigured", "raise", "ok"}

PushNext ==
    \/ PushStart
    \/ PushSkip
    \/ \E send \in SendOutcomes : PushTelegram(send)
    \/ \E send \in {"raise", "ok"} : PushPushplus(send)
    \/ \E outcome \in OtherOutcomes : PushOther(outcome)
    \/ PushReturn

Next ==
    \/ MainGetConfig
    \/ MainUsers
    \/ MainNewSignIn
    \/ \E data \in MainTokenResponses(self.refresh_token) : GetAccessToken(data)
    \/ \E data \in MainSignInResponses : SignInRequest(data)
    \/ SignInReward
    \/ GenerateResult
    \/ MainAppend
    \/ MainJoin
    \/ PushNext
    \/ MainUpdateConfig
    \/ \E raises \in BOOLEAN : MainUpdateSecret(raises)

Spec == Init /\ [][Next]_vars

(***************************************************************************)
(* One session: SignIn(config, refresh_token).run() for every credential   *)
(* and every answer of the two endpoints.                                  *)
(***************************************************************************)
InitSession ==
    /\ Fresh
    /\ pc = "get_access_token"
    /\ by_action = FALSE
    /\ source = NoConfig
    /\ config = NoConfig
    /\ self \in {NewSignIn(tok) : tok \in Tokens}
    /\ push_args = NoPushArgs

NextSession ==
    \/ \E data \in TokenResponses(self.refresh_token) : GetAccessToken(data)
    \/ \E data \in SignInResponses(MaxLogLen, MaxCount) : SignInRequest(data)
    \/ SignInReward
    \/ GenerateResult

SpecSession == InitSession /\ [][NextSession]_vars

(***************************************************************************)
(* One dispatch: push(config, content, content_html, title) for every      *)
(* push_types and every setting of the channels.                           *)
(***************************************************************************)
PushConfigs ==
    { MakeConfig(Absent, types, plus, tg) :
        types \in PushTypeValues, plus \in Settings, tg \in TelegramSettings }

InitPush ==
    /\ Fresh
    /\ pc = "push"
    /\ by_action = FALSE
    /\ source = NoConfig
    /\ config \in PushConfigs
    /\ self = NewSignIn(<<>>)
    /\ push_args = [content |-> <<"text">>, content_html |-> <<"html">>,
                    caller |-> "caller"]

SpecPush == InitPush /\ [][PushNext]_vars


(***************************************************************************)
(* Properties of a session (SpecSession).                                  *)
(***************************************************************************)
\* the exchange was answered with the three token fields and not rejected
ExchangeSucceeded ==
    /\ data_token.has_tokens
    /\ ~(data_token.has_code /\ data_token.code \in
            {"RefreshTokenExpired", "InvalidParameter.RefreshToken"})

\* the exchange was answered with a code of an invalid or expired credential
ExchangeRejected ==
    /\ data_token.has_code
    /\ data_token.code \in {"RefreshTokenExpired", "InvalidParameter.RefreshToken"}

\* C1: whatever the two endpoints answer, SignIn.run returns a Result and no
\* exception escapes from it.
C1_NoExceptionEscapes == pc # "raised" /\ exc = "None"

\* C2: when the exchange answers with the code of an invalid or expired
\* credential, no sign-in call is made and the Result has success false, the
\* input credential as rotated credential, and both report fragments made of the
\* masked credential and the raw body of the exchange.
C2_RejectedCredential ==
    ExchangeRejected =>
        /\ pc \in {"generate_result", "return"}
        /\ calls = <<"token">>
        /\ pc = "return" =>
            /\ result.success = FALSE
            /\ result.refresh_token = self.refresh_token
            /\ result.text = <<"[">> \o self.hide_refresh_token
                                \o <<"] sign-in failed\n", data_token.raw>>
            /\ result.text_html = <<"<code>">> \o self.hide_refresh_token
                                \o <<"</code> sign-in failed\n", "<code>",
                                     data_token.raw, "</code>">>

C2_Witness ==
    /\ pc = "return"
    /\ ExchangeRejected
    /\ data_token.code = "InvalidParameter.RefreshToken"
    /\ Len(self.refresh_token) = 9
    /\ result.text[Len(result.text)] = "InvalidParameter.RefreshToken"

\* the sign-in call was made and answered without the success key
SignInRefused == data_signin # NoSignInData /\ ~data_signin.has_success

\* the name the reports show: the user name of the exchange, else the masked
\* credential
ShownUser == IF data_token.user_name # <<>> THEN data_token.user_name
             ELSE self.hide_refresh_token

\* C3: when the exchange succeeds and the sign-in answer lacks the success key,
\* the Result has success false, the refresh token of the exchange as rotated
\* credential, and both report fragments carry the sign-in answer.
C3_SignInRefused ==
    (pc = "return" /\ ExchangeSucceeded /\ SignInRefused) =>
        /\ result.success = FALSE
        /\ result.refresh_token = data_token.refresh_token
        /\ result.text = <<"[">> \o ShownUser \o <<"] sign-in failed\n", data_signin.raw>>
        /\ result.text_html = <<"<code>">> \o ShownUser
                                \o <<"</code> sign-in failed\n", "<code>",
                                     data_signin.raw, "</code>">>

C3_Witness ==
    /\ pc = "return"
    /\ ExchangeSucceeded
    /\ SignInRefused
    /\ calls = <<"token", "sign_in">>
    /\ data_token.refresh_token # self.refresh_token
    /\ result.refresh_token = Rotated(self.refresh_token)

\* the day of the first missed entry of a log that has one
FirstMissDay(logs) ==
    CHOOSE k \in 1..Len(logs) :
        /\ logs[k].status = "miss"
        /\ \A j \in 1..(k - 1) : logs[j].status # "miss"

HasMiss(logs) == \E k \in 1..Len(logs) : logs[k].status = "miss"

\* C4: for a log with a missed entry, the current day is the entry just before
\* the first missed one, and never an entry at or after it.
C4_CurrentDayBeforeFirstMiss ==
    (pc = "reward" /\ HasMiss(data_signin.signInLogs)) =>
        LET k == FirstMissDay(data_signin.signInLogs)
        IN  /\ k > 1 => current_day = <<data_signin.signInLogs[k - 1]>>
            /\ current_day # <<>> => current_day[1].day < k

\* C5: when the exchange and the sign-in call both succeed, the Result is a
\* success Result whose count is the signInCount of the answer, whatever that
\* count is.
C5_SuccessResult ==
    (pc = "return" /\ ExchangeSucceeded /\ data_signin.has_success) =>
        /\ result.success = TRUE
        /\ result.count = data_signin.signInCount
        /\ result.text = <<"[">> \o ShownUser
                            \o <<"] signed in, days this month: ",
                                 ToString(data_signin.signInCount), "\nthis time: ">>
                            \o result.reward


(***************************************************************************)
(* Properties of a run of main (Spec).                                     *)
(***************************************************************************)
RECURSIVE Offset(_, _)
\* where part i starts in the join of parts with a separator of one element
Offset(parts, i) ==
    IF i = 1 THEN 0 ELSE Offset(parts, i - 1) + Len(parts[i - 1]) + 1

\* joined is the parts in their order with exactly one sep between neighbours
JoinedInOrder(joined, parts, sep) ==
    LET n == Len(parts)
    IN  /\ n = 0 => joined = <<>>
        /\ n > 0 => Len(joined) = Offset(parts, n) + Len(parts[n])
        /\ \A i \in 1..n :
              /\ SubSeq(joined, Offset(parts, i) + 1,
                        Offset(parts, i) + Len(parts[i])) = parts[i]
              /\ i < n => joined[Offset(parts, i) + Len(parts[i]) + 1] = sep

\* the report of result r shows the error of a rejected exchange
ShowsRejectedExchange(r) ==
    /\ ~r.success
    /\ r.text[Len(r.text)] \in {"RefreshTokenExpired", "InvalidParameter.RefreshToken"}

TextJoined == pc \in {"push", "push_loop", "update", "done"}

Updated == pc = "done" \/ push_args.caller = "alert"

\* C6: the combined text and html are the fragments of all results in input
\* order with exactly one blank line between neighbours, and the rotated
\* credentials are one per configured credential in input order: the credential
\* of the exchange where it succeeded and the configured one where it did not;
\* with no credential both are empty.
C6_Aggregation ==
    /\ TextJoined =>
        /\ Len(results) = Len(users)
        /\ JoinedInOrder(text, [i \in 1..Len(results) |-> results[i].text], "\n\n")
        /\ JoinedInOrder(text_html, [i \in 1..Len(results) |-> results[i].text_html],
                         "\n\n")
    /\ Updated =>
        /\ Len(new_users) = Len(users)
        /\ \A i \in 1..Len(users) :
              /\ new_users[i] = results[i].refresh_token
              /\ new_users[i] = IF ShowsRejectedExchange(results[i]) THEN users[i]
                                ELSE Rotated(users[i])

C6_Witness ==
    /\ pc = "done"
    /\ Len(users) = 2
    /\ users[1] # users[2]
    /\ ShowsRejectedExchange(results[1])
    /\ results[2].success
    /\ new_users = <<users[1], Rotated(users[2])>>
    /\ Len(text) = Len(results[1].text) + 1 + Len(results[2].text)

\* C7: every configured credential's session is run, in configured order, and a
\* failed session stops neither the sessions after it nor the dispatch of the
\* report: a run that has begun its sessions ends with one result per
\* credential and the report dispatched.
C7_EverySessionRuns ==
    (pc \in {"done", "raised"} /\ idx >= 1) =>
        /\ Len(results) = Len(users)
        /\ push_count >= 1

(***************************************************************************)
(* Properties of a dispatch (SpecPush).                                    *)
(***************************************************************************)
\* the known channels a push_types value names, lowered and stripped
NamedChannels ==
    { KnownChannels[i].pusher : i \in
        { j \in 1..Len(KnownChannels) :
            \E k \in 1..Len(config.push_types.val) :
                Strip(Lower(config.push_types.val[k])) = KnownChannels[j].push_type } }

InvokedSet == {invoked[i] : i \in 1..Len(invoked)}

\* C8: a dispatch invokes exactly the known channels named in push_types and
\* returns an outcome mapping whose keys are those channels.
C8_ExactlyEnabledWithOutcomes ==
    pc = "returned" =>
        /\ InvokedSet = NamedChannels
        /\ push_return.kind = "dict"
        /\ push_return.keys = InvokedSet

\* how often push_types names the channel at position i of the known channels
TimesNamed(i) == Count(configured_push_types, KnownChannels[i].push_type)

TimesInvoked(i) == Count(invoked, KnownChannels[i].pusher)

\* C9 as claimed: a channel named k times is invoked k times in one dispatch.
C9_InvokedOncePerName ==
    pc = "returned" =>
        \A i \in 1..Len(KnownChannels) : TimesInvoked(i) = TimesNamed(i)

\* C9 as amended: a channel is invoked at most once in one dispatch however
\* often push_types names it, and exactly once, when named, in a dispatch that
\* runs to its end.
C9_InvokedAtMostOnce ==
    \A i \in 1..Len(KnownChannels) :
        /\ TimesInvoked(i) <= 1
        /\ pc = "returned" => TimesInvoked(i) = IF TimesNamed(i) >= 1 THEN 1 ELSE 0

C9_Witness ==
    /\ pc = "returned"
    /\ \E i \in 1..Len(KnownChannels) : TimesNamed(i) = 2 /\ TimesInvoked(i) = 1

\* C10: with push_types given, whatever the settings of the channels and the
\* outcomes of their sends, no exception leaves the dispatcher, every named
\* channel is invoked and each gives an outcome.
C10_ChannelFailuresIsolated ==
    config.push_types.kind # "absent" =>
        /\ pc # "raised"
        /\ pc = "returned" =>
            /\ InvokedSet = NamedChannels
            /\ Len(outcomes) = Len(invoked)


\* a required setting of pushplus is empty or absent
PushplusIncomplete == config.pushplus_token \in {"absent", "empty"}

\* a required setting of telegram is empty or absent
TelegramIncomplete ==
    \E v \in {config.telegram_endpoint, config.telegram_bot_token,
              config.telegram_chat_id} : v \in {"absent", "empty"}

\* the channel was invoked, no exception left it, it returned False and it
\* posted no request
Declined(pusher) ==
    /\ pc # "raised"
    /\ \A i \in 1..Len(invoked) :
          invoked[i] = pusher => i <= Len(outcomes) /\ outcomes[i] = FALSE
    /\ \A i \in 1..Len(calls) : calls[i] # pusher

\* C11: an invoked channel with an empty or absent required setting gives a
\* false outcome without a request, and the dispatch goes on to the channels
\* after it.
C11_IncompleteChannelDeclines ==
    /\ ("pushplus" \in InvokedSet /\ PushplusIncomplete) => Declined("pushplus")
    /\ ("telegram" \in InvokedSet /\ TelegramIncomplete) => Declined("telegram")


(***************************************************************************)
(* Properties of the end of a run of main (Spec).                          *)
(***************************************************************************)
\* update_secret was called and the secret was not stored
UpdateFailed ==
    /\ by_action
    /\ \E i \in 1..Len(calls) : calls[i] = "update_secret"
    /\ store = NoneStr

\* C12: in an action run, once the update of the secret has failed, push is
\* called once more, after the dispatch of the report, with the error as content
\* and html, no exception escapes, and the run goes on until main has ended.
C12_AlertAfterFailedUpdate ==
    UpdateFailed =>
        /\ exc = "None"
        /\ pc \in {"push", "push_loop", "done"}
        /\ push_args = [content |-> UpdateSecretFailed,
                        content_html |-> UpdateSecretFailed, caller |-> "alert"]
        /\ push_count = IF pc = "push" THEN 1 ELSE 2
        /\ pc # "done" => ENABLED PushNext

C12_Witness ==
    /\ UpdateFailed
    /\ pc = "done"
    /\ push_count = 2
    /\ invoked = <<"telegram", "smtp">>
    /\ calls[Len(calls)] = "smtp"


(***************************************************************************)
(* Properties of the display form and the identifier (SpecSession).        *)
(***************************************************************************)
\* h keeps the first 4 and the last 4 characters of t and has '*' between
MaskedForm(h, t) ==
    /\ Len(h) = Len(t)
    /\ \A i \in 1..Len(t) :
          h[i] = IF i <= 4 \/ i > Len(t) - 4 THEN t[i] ELSE "*"

\* C13: the display form of a credential of 8 or more characters has its
\* length, its first 4 and last 4 characters and '*' everywhere between; the
\* display form of a shorter credential is the credential unchanged.
C13_Masking ==
    /\ Len(self.refresh_token) >= 8 =>
           MaskedForm(self.hide_refresh_token, self.refresh_token)
    /\ Len(self.refresh_token) < 8 => self.hide_refresh_token = self.refresh_token


(***************************************************************************)
(* Properties of the whole run of main (Spec).                             *)
(***************************************************************************)
\* no session has begun and nothing has been asked of a remote service
NothingAttempted == idx = 0 /\ calls = <<>> /\ push_count = 0

\* C14: a run ends before its sessions, dispatch and persistence are done only
\* because of its configuration, before any session has begun, and then without
\* an exchange, a sign-in, a notification or a secret-store call.
C14_OnlyConfigurationAborts ==
    pc \in {"exit", "raised"} => NothingAttempted

\* the persistence step has been performed with the rotated credentials of
\* the sessions, joined by commas in the configured order
Persisted ==
    /\ Len(results) = Len(users)
    /\ new_users = RefreshTokens(results)
    /\ IF by_action
       THEN /\ \E i \in 1..Len(calls) : calls[i] = "update_secret"
            /\ store \in {NoneStr, Join(new_users, <<",">>)}
       ELSE config.refresh_tokens = OneStr(Join(new_users, <<",">>))

\* C15: a run that has come to the dispatch of its report and has invoked an
\* enabled channel does not end before the persistence step has been performed
\* with the rotated credentials, whatever the enabled channels did.
C15_PersistedAfterDispatch ==
    (push_count >= 1 /\ invoked # <<>> /\ pc \in {"done", "raised"}) => Persisted


(***************************************************************************)
(* Properties of the Telegram channel (SpecPush).                          *)
(***************************************************************************)
\* C16: telegram.push has returned True only in a call in which Pusher.send
\* returned the body of a 200 response: it has returned False where send gave
\* None for another status and where the request raised.
C16_TrueOnlyIfAccepted ==
    \A i \in 1..Len(outcomes) :
        (invoked[i] = "telegram" /\ outcomes[i]) => sent[i] = "dict"


(***************************************************************************)
(* Properties of the identifier of a Result (SpecSession).                 *)
(***************************************************************************)
\* the exchange succeeded and its answer carries a user name
UserNameReturned ==
    ExchangeSucceeded /\ Truthy(data_token.user_name)

\* text begins with open, user and a string that begins with close
Shows(txt, open, user, closes) ==
    /\ Len(txt) >= Len(user) + 2
    /\ SubSeq(txt, 1, Len(user) + 1) = <<open>> \o user
    /\ txt[Len(user) + 2] \in closes

\* C17: the user of a Result, which is also the name at the head of its text
\* and of its html, is the user name of the exchange when the exchange gave
\* one, and otherwise the display form the session has made of its credential;
\* for a credential of more than 8 characters that form is masked and is not
\* the credential.
C17_UserIdentifier ==
    pc = "return" =>
        /\ result.user = IF UserNameReturned THEN data_token.user_name
                         ELSE self.hide_refresh_token
        /\ Shows(result.text, "[", result.user,
                 {"] signed in, days this month: ", "] sign-in failed\n"})
        /\ Shows(result.text_html, "<code>", result.user,
                 {"</code> signed in, days this month: ", "</code> sign-in failed\n"})
        /\ (~UserNameReturned /\ Len(self.refresh_token) > 8) =>
               /\ MaskedForm(result.user, self.refresh_token)
               /\ result.user # self.refresh_token

C17_Witness ==
    /\ pc = "return"
    /\ ExchangeRejected
    /\ Len(self.refresh_token) = MaxTokenLen
    /\ result.user # self.refresh_token
    /\ result.user[5] = "*"
    /\ result.text[6] = "*"

====
